---------------------------- MODULE Spec2Model ----------------------------
(***************************************************************************)
(* Tiered trending ranking and social refresh of the OffChain service      *)
(* (src/apps/OffChain/src/index.ts).                                       *)
(*                                                                         *)
(* The service is one Node.js process.  Every async function runs without  *)
(* interruption up to an `await` on I/O; the model has one action per      *)
(* such stretch of code.  A Redis command is two events: its effect on    *)
(* the Score Store (at the server) and, later, the continuation of the     *)
(* awaiting function (in the process).  Nothing in the repository orders   *)
(* the continuations of different callers, so they interleave freely.      *)
(*                                                                         *)
(* Addresses are modelled by 1..NumTokens, numbered in ascending           *)
(* lexicographic order of the address strings.  Time is in minutes.        *)
(***************************************************************************)
EXTENDS Integers, Sequences, FiniteSets, TLC

\* ------------------------------------------------------------- bounds
NumTokens == 2      \* addresses the Score Store may hold
MaxTasks  == 2      \* async calls (refresh cycles, /top-tokens) in flight
MaxTime   == 2      \* last clock value explored, in minutes
MaxClock  == 1800   \* last timer instant explored, in seconds
MaxRank   == 101    \* last rank position examined
MaxJobRuns == 121   \* runs of the on-chain monitor job explored
MaxMessages == 3    \* payloads of any type the agent processes
MaxLogged  == 102   \* payloads of the rotating stream the agent processes
MaxInsights == 12   \* insight reports generated
MaxGenerating == 2  \* generateInsights calls in flight

\* ------------------------------------------------- program constants
RANKING_CACHE_TTL == 2      \* 2 * 60 * 1000 ms, in minutes
HIGH_END          == 20     \* updateTokensByRankRange(0, 20)
MEDIUM_END        == 100    \* updateTokensByRankRange(20, 100)
BOOT_LOW_END      == 300    \* updateTokensByRankRange(100, 300)
DEFAULT_LIMIT     == 50     \* parseInt(req.query.limit) || 50
NO_SOCIAL_SCORE   == 30     \* socialAnalysis ? calculateSocialScore(..) : 30

HIGH_INTERVAL     == 300    \* 5 * 60 * 1000 ms, in seconds
MEDIUM_INTERVAL   == 1200   \* 20 * 60 * 1000 ms, in seconds
LOW_INTERVAL      == 1800   \* 30 * 60 * 1000 ms, in seconds
BOOT_HIGH_DELAY   == 2      \* setTimeout(.., 2000), in seconds
BOOT_MEDIUM_DELAY == 15     \* setTimeout(.., 15000), in seconds
BOOT_LOW_DELAY    == 30     \* setTimeout(.., 30000), in seconds
JOB_PERIOD        == 60     \* "Every 1 minute (Background Job)", in seconds
ACTIVITY_LOG_MAX  == 100    \* this.activityLog.slice(0, 100)
INSIGHTS_MAX      == 10     \* this.insights.slice(0, 10)
ONCHAIN_HIGH      == 300    \* priority = 'high': 5 min, in seconds
ONCHAIN_MEDIUM    == 1800   \* priority = 'medium': 30 min, in seconds
ONCHAIN_LOW       == 7200   \* priority = 'low': 2 hours, in seconds

Infinity == 1000000         \* the JavaScript value Infinity as a slice end
None     == -1              \* a field that is undefined in the stored JSON
NaN      == -2              \* the JavaScript value NaN

Addr == 1..NumTokens
Slot == 1..MaxTasks

\* A stored token record (the fields the ranking and the refresh touch), and
\* the answer null of client.get / mGet for a key that holds nothing.
\* lastUpdated is socialAnalysis.lastUpdated, in seconds; symbol stands for
\* `symbol || name`, "" when the record has neither.
Rec(oc, ss, fs) ==
  [present |-> TRUE, trendingscore |-> oc, socialScore |-> ss, finalScore |-> fs,
   lastUpdated |-> None, symbol |-> "TKN"]
NoRec ==
  [present |-> FALSE, trendingscore |-> None, socialScore |-> None,
   finalScore |-> None, lastUpdated |-> None, symbol |-> ""]

\* On-chain scores the bootstrap may have stored (field `trendingscore`).
OnChainScores == {50}

\* ------------------------------------------------------- pure helpers
Max(a, b) == IF a >= b THEN a ELSE b
Min(a, b) == IF a <= b THEN a ELSE b

\* Math.round(x / d) for x >= 0, d > 0: JavaScript rounds halves up.
RoundDiv(x, d) == (2 * x + d) \div (2 * d)

SliceAll(seq, start, end) == seq

SliceOpen(seq, start, end) ==
  IF start >= Len(seq) THEN << >> ELSE SubSeq(seq, start + 1, Len(seq))

\* Array.prototype.slice(start, end) on a 0-based array, as a 1-based Seq.
Slice(seq, start, end) ==
  LET lo == Min(start, Len(seq))
      hi == Min(end, Len(seq))
  IN  IF hi <= lo THEN << >> ELSE SubSeq(seq, lo + 1, hi)

\* Permutations of a finite set, as sequences: the orders in which
\* client.keys('0x*') may enumerate the keys.
RECURSIVE Perms(_)
Perms(S) ==
  IF S = {} THEN { << >> }
  ELSE UNION { { <<x>> \o p : p \in Perms(S \ {x}) } : x \in S }

\* AnalyzedToken values the aggregator may return, in the units of the
\* source except sentimentScore and confidence, which are in hundredths.
Analyses ==
  { [sentimentScore |-> 80, trendingScore |-> 90, mentionCount |-> 120,
     avgEngagement |-> 700, confidence |-> 90, riskLevel |-> "low"] }

\* Labels that the object literal of riskPenalty inherits from
\* Object.prototype: the lookup gives a function, which is truthy.
PrototypeKeys == {"constructor", "toString", "valueOf", "hasOwnProperty"}

\* riskPenalty, in tenths; `|| 0.8` for a label the lookup gives nothing
\* for.  For an inherited label it is a function, NaN once multiplied.
RiskPenalty(riskLevel) ==
  CASE riskLevel = "low"           -> 10
    [] riskLevel = "medium"        -> 8
    [] riskLevel = "high"          -> 5
    [] riskLevel = "extreme"       -> 2
    [] riskLevel \in PrototypeKeys -> NaN
    [] OTHER                       -> 8

\* The default of a destructured field: `field = d`.
OrDefault(v, d) == IF v = None THEN d ELSE v

\* calculateSocialScore: baseScore in units of 1/2000, the penalty in
\* tenths, so baseScore * riskPenalty is in units of 1/20000.
calculateSocialScore(t) ==
  LET sentimentScore == OrDefault(t.sentimentScore, 0)
      trendingScore  == OrDefault(t.trendingScore, 0)
      mentionCount   == OrDefault(t.mentionCount, 0)
      avgEngagement  == OrDefault(t.avgEngagement, 0)
      confidence     == OrDefault(t.confidence, 0)
      riskPenalty    == RiskPenalty(t.riskLevel)
      base == trendingScore * 600
              + (sentimentScore + 100) * 250
              + Min(mentionCount, 100) * 400
              + Min(avgEngagement, 1000) * 30
              + confidence * 200
      x    == base * riskPenalty
      r    == IF x >= 0 THEN RoundDiv(x, 20000) ELSE 0
  IN  IF riskPenalty = NaN THEN NaN ELSE Max(0, Min(100, r))

\* Math.round((onChainScore * 0.6) + (socialScore * 0.4))
Fuse(onChainScore, socialScore) ==
  IF socialScore = NaN THEN NaN
  ELSE RoundDiv(6 * onChainScore + 4 * socialScore, 10)

\* `tokenData.trendingscore || 0`
OnChainOf(rec) == IF rec.trendingscore = None THEN 0 ELSE rec.trendingscore

\* `v.finalScore || v.trendingscore || 0`
FinalOf(rec) ==
  IF rec.finalScore # None /\ rec.finalScore # 0 THEN rec.finalScore
  ELSE IF rec.trendingscore # None /\ rec.trendingscore # 0
       THEN rec.trendingscore
       ELSE 0

UpdatedDataStale(tokenData, socialScore) ==
  [tokenData EXCEPT !.socialScore = socialScore]

\* updatedData = { ...tokenData, socialScore, finalScore, socialAnalysis }
UpdatedData(tokenData, socialScore) ==
  [tokenData EXCEPT !.socialScore = socialScore,
                    !.finalScore  = Fuse(OnChainOf(tokenData), socialScore)]

\* One entry of the ranking: { address, name, symbol, finalScore }.
Entry(a, rec) ==
  [address |-> a, finalScore |-> FinalOf(rec), symbol |-> rec.symbol]

\* tokens.sort((a, b) => b.finalScore - a.finalScore): a stable sort.
RECURSIVE InsertDesc(_, _)
InsertDesc(e, seq) ==
  IF seq = << >> THEN <<e>>
  ELSE IF Head(seq).finalScore >= e.finalScore
       THEN <<Head(seq)>> \o InsertDesc(e, Tail(seq))
       ELSE <<e>> \o seq

RECURSIVE SortDesc(_)
SortDesc(seq) ==
  IF seq = << >> THEN << >>
  ELSE InsertDesc(seq[Len(seq)], SortDesc(SubSeq(seq, 1, Len(seq) - 1)))

\* values.map(parse).filter(Boolean).map(entry), in the order of `keys`.
RECURSIVE Tokens(_, _)
Tokens(keys, vals) ==
  IF keys = << >> THEN << >>
  ELSE (IF ~vals[Head(keys)].present THEN << >>
        ELSE << Entry(Head(keys), vals[Head(keys)]) >>)
       \o Tokens(Tail(keys), vals)

Range(seq) == { seq[i] : i \in 1..Len(seq) }

\* ------------------------------------------------------------- state
VARIABLES
  store,              \* Redis: address -> record, or NoRec
  cachedRankings,     \* let cachedRankings: any[]
  lastRankingUpdate,  \* let lastRankingUpdate
  now,                \* Date.now(), in minutes
  tasks,              \* the async calls in flight, one per slot
  cacheStale,         \* history: cachedRankings was read from the store
                      \* before a write that has since completed
  sched,              \* the timers of the process: clock and due times
  table,              \* the token_scores rows of the on-chain monitor
  cleared,            \* history: POST /clear-cache has answered and no
                      \* call of getTokenAddressesSorted has started since
  agent               \* the PersonalAssistantAgent: aggregatedData,
                      \* activityLog, insights

vars == << store, cachedRankings, lastRankingUpdate, now, tasks, cacheStale,
           sched, table, cleared, agent >>

\* One token's updateTokenSocialScore call inside a cycle's Promise.all.
NoUpd == [pc |-> "none", socialScore |-> None, data |-> NoRec]

\* What the task's call of getTokenAddressesSorted did (history only):
\*   path    how it returned: "hit", "miss", "empty" (no keys), "err";
\*   missed  the writes (slot, address) Redis applied after the call's
\*           mGet was executed and whose continuation has not run yet;
\*   behind  some write applied after the call's mGet has completed
\*           (its `cachedRankings = []` has run);
\*   stale   the call started after a write had completed and returned
\*           an order read from the store before that write;
\*   expired the call found a snapshot and rebuilt because of its age.
NoObs == [path |-> "none", missed |-> {}, behind |-> FALSE, stale |-> FALSE,
          expired |-> FALSE]

IdleTask ==
  [kind |-> "idle", origin |-> "none", startRank |-> 0, endRank |-> 0,
   pc |-> "idle", now0 |-> 0, keys |-> << >>,
   vals |-> [a \in Addr |-> NoRec], tokens |-> << >>,
   upd |-> [a \in Addr |-> NoUpd], obs |-> NoObs]

Free(s) == tasks[s].pc = "idle"

\* A new call takes the first free slot.
FirstFree(s) == Free(s) /\ \A r \in Slot : r < s => ~Free(r)

\* ------------------------------------------------------------ timers
Tiers == {"high", "medium", "low"}

TierWindowOneBased(tier) ==
  CASE tier = "high"   -> << 1, HIGH_END + 1 >>
    [] tier = "medium" -> << HIGH_END + 1, MEDIUM_END + 1 >>
    [] tier = "low"    -> << MEDIUM_END + 1, Infinity >>

\* The rank window each setInterval callback passes to
\* updateTokensByRankRange.
TierWindow(tier) ==
  CASE tier = "high"   -> << 0, HIGH_END >>
    [] tier = "medium" -> << HIGH_END, MEDIUM_END >>
    [] tier = "low"    -> << MEDIUM_END, Infinity >>

\* A zero-based position p that slice(w[1], w[2]) keeps.
InWindow(p, w) == w[1] <= p /\ p < w[2]

\* The tier whose scheduled refresh covers the zero-based rank p.
TierOf(p) ==
  IF \E tier \in Tiers : InWindow(p, TierWindow(tier))
  THEN CHOOSE tier \in Tiers : InWindow(p, TierWindow(tier))
  ELSE "none"

\* The rank window each start-up setTimeout callback passes.
BootWindow(tier) ==
  IF tier = "low" THEN << MEDIUM_END, BOOT_LOW_END >> ELSE TierWindow(tier)

IntervalTimers == {"high", "medium", "low"}
BootTimers     == {"bootHigh", "bootMedium", "bootLow"}
Timers         == IntervalTimers \cup BootTimers

TimerTier(t) ==
  CASE t \in {"high", "bootHigh"}     -> "high"
    [] t \in {"medium", "bootMedium"} -> "medium"
    [] t \in {"low", "bootLow"}       -> "low"

TimerWindow(t) ==
  IF t \in BootTimers THEN BootWindow(TimerTier(t)) ELSE TierWindow(TimerTier(t))

DelaySwapped(t) ==
  CASE t = "high"       -> HIGH_INTERVAL
    [] t = "medium"     -> MEDIUM_INTERVAL
    [] t = "low"        -> LOW_INTERVAL
    [] t = "bootHigh"   -> BOOT_HIGH_DELAY
    [] t = "bootMedium" -> BOOT_LOW_DELAY
    [] t = "bootLow"    -> BOOT_MEDIUM_DELAY

\* The delay given to setInterval or setTimeout.
Delay(t) ==
  CASE t = "high"       -> HIGH_INTERVAL
    [] t = "medium"     -> MEDIUM_INTERVAL
    [] t = "low"        -> LOW_INTERVAL
    [] t = "bootHigh"   -> BOOT_HIGH_DELAY
    [] t = "bootMedium" -> BOOT_MEDIUM_DELAY
    [] t = "bootLow"    -> BOOT_LOW_DELAY

RearmOnce(t, clock) == None

\* When a timer that fired at `clock` is due next: a setInterval timer
\* after its delay again, a setTimeout timer never.
Rearm(t, clock) ==
  IF t \in IntervalTimers THEN clock + Delay(t) ELSE None

\* The timers as the app.listen callback leaves them, at clock 0.
SchedInit == [clock |-> 0, next |-> [t \in Timers |-> Delay(t)]]

\* ------------------------------------- on-chain monitor (design document)
Priorities == {"high", "medium", "low"}

\* The age after which a row of the given priority is selected.
OnChainInterval(priority) ==
  CASE priority = "high"   -> ONCHAIN_HIGH
    [] priority = "medium" -> ONCHAIN_MEDIUM
    [] priority = "low"    -> ONCHAIN_LOW

NeedsUpdateInclusive(row, current_time) ==
  row.last_updated <= current_time - OnChainInterval(row.priority)

\* WHERE (priority = p AND last_updated < current_time - interval(p))
NeedsUpdate(row, current_time) ==
  row.last_updated < current_time - OnChainInterval(row.priority)

Row(priority, last_updated) ==
  [priority |-> priority, last_updated |-> last_updated]

\* ---------------------------------------------- PersonalAssistantAgent
\* The keys of aggregatedData: token addresses, and undefined for a
\* payload whose data has no address.
AgentKeys == Addr \cup {None}

MessageTypes ==
  {"token_discovery", "yield_report", "risk_report", "alert_decision",
   "settlement_request", "unknown"}

\* aggregatedData.get(key) when the map has no such key.
NoAgg ==
  [present |-> FALSE, discovery |-> "none", yield |-> None, risk |-> None,
   alert |-> None, lastUpdated |-> None]

\* The agent after its constructor.  received and generated count the
\* payloads processed and the reports made: they number the payloads and
\* the reports, and stand for Date.now().  generating is the number of
\* generateInsights calls waiting for callGroqAPI.
AgentInit ==
  [aggregatedData |-> [k \in AgentKeys |-> NoAgg],
   activityLog |-> << >>, insights |-> << >>,
   received |-> 0, generated |-> 0, generating |-> 0]

\* The store holds no token yet, or every tracked token as the bootstrap
\* wrote it: an on-chain score and no social or final score.
InitService ==
  /\ store \in {[a \in Addr |-> NoRec]}
               \cup [Addr -> { Rec(oc, None, None) : oc \in OnChainScores }]
               \cup [Addr -> { [Rec(oc, None, None) EXCEPT !.symbol = ""] :
                                 oc \in OnChainScores }]
  /\ cachedRankings = << >>
  /\ lastRankingUpdate = 0
  /\ now = 0
  /\ tasks = [s \in Slot |-> IdleTask]
  /\ cacheStale = FALSE
  /\ cleared = FALSE
  /\ sched = SchedInit
  /\ agent = AgentInit

Init ==
  /\ InitService
  /\ table = [clock |-> 0, tokens_to_update |-> {},
              rows |-> [a \in Addr |-> Row("high", 0)]]

\* ------------------------------------------- getTokenAddressesSorted
CacheFreshLoose ==
  /\ Len(cachedRankings) > 0
  /\ (now - lastRankingUpdate) <= RANKING_CACHE_TTL

\* cachedRankings.length > 0 && (now - lastRankingUpdate) < RANKING_CACHE_TTL
CacheFresh ==
  /\ Len(cachedRankings) > 0
  /\ (now - lastRankingUpdate) < RANKING_CACHE_TTL

\* What getTokenAddressesSorted returns from its catch block.
OnError == << >>

TickersUnfiltered(tokensToUpdate) ==
  [i \in 1..Len(tokensToUpdate) |-> tokensToUpdate[i].symbol]

\* tokensToUpdate.map(t => t.symbol || t.name || '').filter(Boolean)
Tickers(tokensToUpdate) ==
  LET all == [i \in 1..Len(tokensToUpdate) |-> tokensToUpdate[i].symbol]
  IN  SelectSeq(all, LAMBDA x : x # "")

\* The caller's code after `await getTokenAddressesSorted()` gave `ranked`,
\* up to its next await: updateTokensByRankRange slices its window and
\* starts the social fetch (or returns), and from here on uses only the
\* addresses of the slice; GET /top-tokens slices and sends its mGet.
Continue(t, ranked, path) ==
  LET sel == Slice(ranked, t.startRank, t.endRank)
      tokenTickers == Tickers(sel)
      t1  == [t EXCEPT !.obs.path = path,
                       !.startRank = 0, !.endRank = 0, !.now0 = 0,
                       !.keys = << >>, !.vals = [a \in Addr |-> NoRec]]
  IN  IF t.kind = "cycle"
      THEN IF sel = << >> \/ tokenTickers = << >>
           THEN IdleTask
           ELSE [t1 EXCEPT !.pc = "fetch",
                           !.upd = [a \in Addr |->
                                      IF \E e \in Range(sel) : e.address = a
                                      THEN [NoUpd EXCEPT !.pc = "sel"]
                                      ELSE NoUpd]]
      ELSE [t1 EXCEPT !.pc = "topmget", !.tokens = sel]

\* A call starts: the synchronous head of getTokenAddressesSorted.
Begin(s, kind, origin, startRank, endRank) ==
  LET t0 == [IdleTask EXCEPT !.kind = kind, !.origin = origin,
                             !.startRank = startRank, !.endRank = endRank,
                             !.now0 = now]
  IN  /\ FirstFree(s)
      /\ cleared' = FALSE
      /\ tasks' = [tasks EXCEPT ![s] =
            IF CacheFresh
            THEN Continue([t0 EXCEPT !.obs.stale = cacheStale],
                          cachedRankings, "hit")
            ELSE [t0 EXCEPT !.pc = "keys",
                            !.obs.expired = (cachedRankings # << >>)]]

\* `await client.keys('0x*')` answers, `if (!keys.length) return []`, and
\* client.mGet(keys) is executed by Redis.  The two commands are one step:
\* no code of the repository adds or removes a key, so KEYS answers the
\* same whenever it runs.
KeysMGet(s) ==
  /\ tasks[s].pc = "keys"
  /\ \E order \in Perms({ a \in Addr : store[a].present }) :
       tasks' = [tasks EXCEPT ![s] =
         IF order = << >>
         THEN Continue(tasks[s], << >>, "empty")
         ELSE [tasks[s] EXCEPT !.pc = "mgot", !.keys = order, !.vals = store]]
  /\ UNCHANGED << store, cachedRankings, lastRankingUpdate, now, sched, table, cacheStale, cleared, agent >>

\* Redis is unreachable for client.keys or client.mGet: the catch block
\* logs the error and returns [].
KeysMGetFail(s) ==
  /\ tasks[s].pc = "keys"
  /\ tasks' = [tasks EXCEPT ![s] = Continue(tasks[s], OnError, "err")]
  /\ UNCHANGED << store, cachedRankings, lastRankingUpdate, now, sched, table, cacheStale, cleared, agent >>

Unsorted(t) == Tokens(t.keys, t.vals)

\* What the rebuild returns and caches.
Sorted(t) == SortDesc(Tokens(t.keys, t.vals))

\* The code after `await client.mGet(keys)`: sort, cache, return.
MGetCont(s) ==
  LET t == tasks[s]
  IN  /\ t.pc = "mgot"
      /\ cachedRankings' = Sorted(t)
      /\ lastRankingUpdate' = t.now0
      /\ cacheStale' = t.obs.behind
      /\ tasks' = [tasks EXCEPT ![s] =
           Continue([t EXCEPT !.obs.missed = {}, !.obs.behind = FALSE],
                    Sorted(t), "miss")]
      /\ UNCHANGED << store, now, sched, table, cleared, agent >>

\* ------------------------------------------- updateTokensByRankRange
\* Social scores one token can get from a cycle: 30 when the analysis has
\* no entry for its ticker, calculateSocialScore(entry) otherwise.
SocialOutcomes ==
  {NO_SOCIAL_SCORE} \cup { calculateSocialScore(t) : t \in Analyses }

\* analysisMap.get(tokenKey) when the analysis has no entry for the ticker.
NoEntry ==
  [sentimentScore |-> None, trendingScore |-> None, mentionCount |-> None,
   avgEngagement |-> None, confidence |-> None, riskLevel |-> "none"]

\* socialAnalysis ? calculateSocialScore(socialAnalysis) : 30
SocialScoreOf(socialAnalysis) ==
  IF socialAnalysis = NoEntry THEN NO_SOCIAL_SCORE
  ELSE calculateSocialScore(socialAnalysis)

\* fetaclTokenData and analyzeTrends answered: the Promise.all starts one
\* updateTokenSocialScore per token, each up to its `await client.get`.
\* `lost` are the tokens whose posts a search lost to an error that
\* searchTweets or fetchReddit caught and logged: with no post, they have
\* no entry in the analysis.
FetchedWith(s, analysisMap, lost) ==
  LET t    == tasks[s]
      toks == { a \in Addr : t.upd[a].pc = "sel" }
  IN  /\ t.pc = "fetch"
      /\ DOMAIN analysisMap = toks
      /\ lost \subseteq { a \in toks : analysisMap[a] = NoEntry }
      /\ tasks' = [tasks EXCEPT ![s] =
           [t EXCEPT !.pc = "upd", !.obs = NoObs,
                     !.upd = [a \in Addr |->
                                IF a \in toks
                                THEN [NoUpd EXCEPT
                                        !.pc = "get",
                                        !.socialScore = SocialScoreOf(analysisMap[a])]
                                ELSE NoUpd]]]
      /\ UNCHANGED << store, cachedRankings, lastRankingUpdate, now, sched,
                      table, cacheStale, cleared, agent >>

Fetched(s) ==
  \E toks \in SUBSET Addr :
    \E analysisMap \in [toks -> Analyses \cup {NoEntry}] :
      \E lost \in SUBSET toks : FetchedWith(s, analysisMap, lost)

\* The fetch or the analysis throws: the cycle's catch block logs it.
FetchFailed(s) ==
  /\ tasks[s].pc = "fetch"
  /\ tasks' = [tasks EXCEPT ![s] = IdleTask]
  /\ UNCHANGED << store, cachedRankings, lastRankingUpdate, now, sched, table, cacheStale, cleared, agent >>

SettleAbort(t, a) == IdleTask

\* A token's call ended; the cycle ends when Promise.all has them all.
Settle(t, a) ==
  LET upd1 == [t.upd EXCEPT ![a] = NoUpd]
  IN  IF \A b \in Addr : upd1[b].pc = "none"
      THEN IdleTask
      ELSE [t EXCEPT !.upd = upd1]

\* ------------------------------------------- updateTokenSocialScore
\* JSON.stringify(updatedData): NaN is written as null.
Stringified(updatedData) ==
  [updatedData EXCEPT !.socialScore = IF @ = NaN THEN None ELSE @,
                      !.finalScore  = IF @ = NaN THEN None ELSE @]

\* socialAnalysis: { .., lastUpdated: new Date().toISOString() }
Stamped(updatedData) == [updatedData EXCEPT !.lastUpdated = sched.clock]

\* `await client.get(address)` answers; `if (!existingData) return`;
\* updatedData is built and client.set is sent.
UpdGet(s, a) ==
  LET t == tasks[s]
      u == t.upd[a]
  IN  /\ t.pc = "upd"
      /\ u.pc = "get"
      /\ tasks' = [tasks EXCEPT ![s] =
           IF ~store[a].present
           THEN Settle(t, a)
           ELSE [t EXCEPT !.upd[a] =
                   [u EXCEPT !.pc = "set",
                             !.data = Stamped(UpdatedData(store[a], u.socialScore))]]]
      /\ UNCHANGED << store, cachedRankings, lastRankingUpdate, now, sched, table, cacheStale, cleared, agent >>

\* client.set(address, JSON.stringify(updatedData)) is executed by Redis.
UpdSet(s, a) ==
  LET t == tasks[s]
      u == t.upd[a]
  IN  /\ t.pc = "upd"
      /\ u.pc = "set"
      /\ store' = [store EXCEPT ![a] = Stringified(u.data)]
      /\ tasks' = [r \in Slot |->
           IF r = s
           THEN [t EXCEPT !.upd[a] = [NoUpd EXCEPT !.pc = "inv"]]
           ELSE IF tasks[r].pc = "mgot"
                THEN [tasks[r] EXCEPT !.obs.missed = @ \cup {<<s, a>>}]
                ELSE tasks[r]]
      /\ UNCHANGED << cachedRankings, lastRankingUpdate, now, sched, table, cacheStale, cleared, agent >>

\* Redis is unreachable for client.get or client.set: the catch block of
\* updateTokenSocialScore logs the error; the invalidation is skipped.
UpdFail(s, a) ==
  LET t == tasks[s]
  IN  /\ t.pc = "upd"
      /\ t.upd[a].pc \in {"get", "set"}
      /\ tasks' = [tasks EXCEPT ![s] = Settle(t, a)]
      /\ UNCHANGED << store, cachedRankings, lastRankingUpdate, now, sched, table, cacheStale, cleared, agent >>

InvalidatedKeep == cachedRankings

\* `cachedRankings = []` after the awaited set.
Invalidated == << >>

UpdInv(s, a) ==
  LET t == tasks[s]
      u == t.upd[a]
  IN  /\ t.pc = "upd"
      /\ u.pc = "inv"
      /\ cachedRankings' = Invalidated
      /\ cacheStale' = (cachedRankings' # << >> /\ cacheStale)
      /\ tasks' = [r \in Slot |->
           IF r = s
           THEN Settle(t, a)
           ELSE IF <<s, a>> \in tasks[r].obs.missed
                THEN [tasks[r] EXCEPT !.obs.missed = @ \ {<<s, a>>},
                                      !.obs.behind = TRUE]
                ELSE tasks[r]]
      /\ UNCHANGED << store, lastRankingUpdate, now, sched, table, cleared, agent >>

\* ---------------------------------------------------- GET /top-tokens
\* parseInt(req.query.limit) || 50
LimitOf(q) == IF q = 0 THEN DEFAULT_LIMIT ELSE q

\* fullData.map((t, i) => ({ ...t, rank: i + 1 }))
RECURSIVE WithRank(_, _)
WithRank(recs, i) ==
  IF recs = << >> THEN << >>
  ELSE << [address |-> Head(recs).address, data |-> Head(recs).data,
           rank |-> i] >> \o WithRank(Tail(recs), i + 1)

\* values.filter(Boolean).map(v => JSON.parse(v))
RECURSIVE FullData(_)
FullData(addrs) ==
  IF addrs = << >> THEN << >>
  ELSE (IF store[Head(addrs).address].present
        THEN << [address |-> Head(addrs).address,
                 data |-> store[Head(addrs).address]] >>
        ELSE << >>) \o FullData(Tail(addrs))

\* The response of GET /top-tokens once `await client.mGet(addresses)`
\* answers; `reachable` says whether Redis can be reached.  The command
\* also fails when the list is empty (MGET takes at least one key); the
\* catch block then answers status 500.
TopResponse(t, reachable) ==
  IF ~reachable \/ t.tokens = << >>
  THEN [status |-> 500, body |-> << >>]
  ELSE [status |-> 200, body |-> WithRank(FullData(t.tokens), 1)]

TopMGet(s) ==
  /\ tasks[s].pc = "topmget"
  /\ tasks' = [tasks EXCEPT ![s] = IdleTask]
  /\ UNCHANGED << store, cachedRankings, lastRankingUpdate, now, sched, table, cacheStale, cleared, agent >>

\* ------------------------------------------------- timers and requests
Others == << store, cachedRankings, lastRankingUpdate, now, sched, table, cacheStale,
            agent >>

\* The HIGH task: setInterval(.., 5 min) and the start-up setTimeout(.., 2 s)
\* both call updateTokensByRankRange(0, 20).  No callback looks at whether
\* an earlier run of the task has returned.
CycleHigh(s) ==
  /\ Begin(s, "cycle", "high", 0, HIGH_END)
  /\ UNCHANGED Others

\* The MEDIUM task: updateTokensByRankRange(20, 100).
CycleMedium(s) ==
  /\ Begin(s, "cycle", "medium", HIGH_END, MEDIUM_END)
  /\ UNCHANGED Others

\* The LOW task: updateTokensByRankRange(100, Infinity) from the interval,
\* updateTokensByRankRange(100, 300) from the start-up timeout.
CycleLow(s) ==
  /\ \E e \in {BOOT_LOW_END, Infinity} : Begin(s, "cycle", "low", MEDIUM_END, e)
  /\ UNCHANGED Others

\* POST /update-social-scores { startRank = 0, endRank = Infinity }
TriggerWindows == { <<0, Infinity>>, <<1, 2>> }

TriggerWith(s, w) ==
  /\ Begin(s, "cycle", "trigger", w[1], w[2])
  /\ UNCHANGED Others

Trigger(s) == \E w \in TriggerWindows : TriggerWith(s, w)

\* The limit query parameter: 0 stands for "0" and for no parameter.
Limits == {0, 1}

\* GET /top-tokens?limit=q
TopTokensWith(s, q) ==
  /\ Begin(s, "top", "top", 0, LimitOf(q))
  /\ UNCHANGED Others

TopTokens(s) == \E q \in Limits : TopTokensWith(s, q)

\* POST /clear-cache
ClearCache ==
  /\ cachedRankings' = << >>
  /\ lastRankingUpdate' = 0
  /\ cacheStale' = FALSE
  /\ cleared' = TRUE
  /\ UNCHANGED << store, now, sched, table, tasks, agent >>

\* A call starts in slot s.
Call(s) ==
  \/ CycleHigh(s)
  \/ CycleMedium(s)
  \/ CycleLow(s)
  \/ Trigger(s)
  \/ TopTokens(s)

\* Everything happens within one minute: the clock does not advance.
\* POST /clear-cache is explored with the clock, in NextTTL, and POST
\* /update-social-scores on its own, in NextTrigger.
Next ==
  \/ \E s \in Slot : CycleHigh(s)
  \/ \E s \in Slot : CycleMedium(s)
  \/ \E s \in Slot : CycleLow(s)
  \/ \E s \in Slot : TopTokens(s)
  \/ \E s \in Slot : KeysMGet(s)
  \/ \E s \in Slot : KeysMGetFail(s)
  \/ \E s \in Slot : MGetCont(s)
  \/ \E s \in Slot : Fetched(s)
  \/ \E s \in Slot : FetchFailed(s)
  \/ \E s \in Slot, a \in Addr : UpdGet(s, a)
  \/ \E s \in Slot, a \in Addr : UpdSet(s, a)
  \/ \E s \in Slot, a \in Addr : UpdFail(s, a)
  \/ \E s \in Slot, a \in Addr : UpdInv(s, a)
  \/ \E s \in Slot : TopMGet(s)

Spec == Init /\ [][Next]_vars
\* ---------------------------------------------------------- the clock
Tick ==
  /\ now < MaxTime
  /\ now' = now + 1
  /\ UNCHANGED << store, cachedRankings, lastRankingUpdate, tasks, cacheStale,
                  sched, table, cleared, agent >>

\* The ranking cache over time: readers, cycles whose rank window is
\* empty, cache clearing and the clock; no refresh writes a record.
NextTTL ==
  \/ \E s \in Slot : TopTokens(s)
  \/ \E s \in Slot : CycleMedium(s)
  \/ ClearCache
  \/ \E s \in Slot : KeysMGet(s)
  \/ \E s \in Slot : KeysMGetFail(s)
  \/ \E s \in Slot : MGetCont(s)
  \/ \E s \in Slot : TopMGet(s)
  \/ Tick

SpecTTL == Init /\ [][NextTTL]_vars

\* ---------------------------------------------------------- scheduler
Due(t) == sched.next[t] = sched.clock

\* A timer callback runs: it calls updateTokensByRankRange with the
\* timer's window, and the timer is re-armed (setInterval) or gone
\* (setTimeout).
Fire(t, s) ==
  /\ Begin(s, "cycle", TimerTier(t), TimerWindow(t)[1], TimerWindow(t)[2])
  /\ sched' = [sched EXCEPT !.next[t] = Rearm(t, sched.clock)]
  /\ UNCHANGED << store, cachedRankings, lastRankingUpdate, now, cacheStale,
                  table, agent >>

BootHigh(s)       == Due("bootHigh") /\ Fire("bootHigh", s)
BootMedium(s)     == Due("bootMedium") /\ Fire("bootMedium", s)
BootLow(s)        == Due("bootLow") /\ Fire("bootLow", s)
IntervalHigh(s)   == Due("high") /\ Fire("high", s)
IntervalMedium(s) == Due("medium") /\ Fire("medium", s)
IntervalLow(s)    == Due("low") /\ Fire("low", s)

\* The earliest due time among the armed timers.
NextDue ==
  LET armed == { t \in Timers : sched.next[t] # None }
  IN  CHOOSE m \in { sched.next[t] : t \in armed } :
        \A t \in armed : m <= sched.next[t]

\* Time passes up to the next due timer; no timer fires early and time
\* does not pass a timer that is due.  The runs in progress have ended
\* by then: the timers are at least 13 seconds apart.
Advance ==
  /\ \A s \in Slot : Free(s)
  /\ \E t \in Timers : sched.next[t] # None
  /\ NextDue > sched.clock
  /\ NextDue <= MaxClock
  /\ sched' = [sched EXCEPT !.clock = NextDue]
  /\ now' = NextDue \div 60
  /\ UNCHANGED << store, cachedRankings, lastRankingUpdate, tasks, cacheStale,
                  table, cleared, agent >>

\* The process from the app.listen callback on, with its timers only.
NextSched ==
  \/ \E s \in Slot : BootHigh(s)
  \/ \E s \in Slot : BootMedium(s)
  \/ \E s \in Slot : BootLow(s)
  \/ \E s \in Slot : IntervalHigh(s)
  \/ \E s \in Slot : IntervalMedium(s)
  \/ \E s \in Slot : IntervalLow(s)
  \/ Advance
  \/ \E s \in Slot : KeysMGet(s)
  \/ \E s \in Slot : KeysMGetFail(s)
  \/ \E s \in Slot : MGetCont(s)
  \/ \E s \in Slot : Fetched(s)
  \/ \E s \in Slot : FetchFailed(s)
  \/ \E s \in Slot, a \in Addr : UpdGet(s, a)
  \/ \E s \in Slot, a \in Addr : UpdSet(s, a)
  \/ \E s \in Slot, a \in Addr : UpdFail(s, a)
  \/ \E s \in Slot, a \in Addr : UpdInv(s, a)

SpecSched == Init /\ [][NextSched]_vars

\* ---------------------------------------------- on-chain monitor job
\* One run of the background job, JOB_PERIOD after the previous one: it
\* selects the rows that need an update and updates those for which the
\* indexer has new transactions (`active`).
JobRunWith(active) ==
  LET current_time     == table.clock + JOB_PERIOD
      tokens_to_update == { a \in Addr : NeedsUpdate(table.rows[a], current_time) }
  IN  /\ current_time <= MaxJobRuns * JOB_PERIOD
      /\ table' = [clock |-> current_time,
                   tokens_to_update |-> tokens_to_update,
                   rows  |-> [a \in Addr |->
                                IF a \in tokens_to_update \cap active
                                THEN Row(table.rows[a].priority, current_time)
                                ELSE table.rows[a]]]
      /\ UNCHANGED << store, cachedRankings, lastRankingUpdate, now, tasks,
                      cacheStale, sched, cleared, agent >>

\* "If new transactions exist": for every token, or for none.
IndexerAnswers == {Addr, {}}

JobRun == \E active \in IndexerAnswers : JobRunWith(active)

\* The bootstrap stored each row with a priority, in the first second or
\* the one after.
InitOnChain ==
  /\ InitService
  /\ table \in [clock : {0}, tokens_to_update : {{}},
                 rows  : [Addr -> { Row(p, u) : p \in Priorities, u \in {0, 1} }]]

NextOnChain == JobRun

SpecOnChain == InitOnChain /\ [][NextOnChain]_vars

\* ------------------------------------------------- manual refreshes
\* The service driven by POST /update-social-scores alone.
NextTrigger ==
  \/ \E s \in Slot : Trigger(s)
  \/ \E s \in Slot : KeysMGet(s)
  \/ \E s \in Slot : KeysMGetFail(s)
  \/ \E s \in Slot : MGetCont(s)
  \/ \E s \in Slot : Fetched(s)
  \/ \E s \in Slot : FetchFailed(s)
  \/ \E s \in Slot, a \in Addr : UpdGet(s, a)
  \/ \E s \in Slot, a \in Addr : UpdSet(s, a)
  \/ \E s \in Slot, a \in Addr : UpdFail(s, a)
  \/ \E s \in Slot, a \in Addr : UpdInv(s, a)

SpecTrigger == Init /\ [][NextTrigger]_vars

\* ------------------------------------------------ the ranking cache
\* Everything that assigns cachedRankings: the rebuild (here by HIGH
\* cycles), the invalidation after a write, and POST /clear-cache.
NextCache ==
  \/ \E s \in Slot : CycleHigh(s)
  \/ ClearCache
  \/ \E s \in Slot : KeysMGet(s)
  \/ \E s \in Slot : KeysMGetFail(s)
  \/ \E s \in Slot : MGetCont(s)
  \/ \E s \in Slot : Fetched(s)
  \/ \E s \in Slot : FetchFailed(s)
  \/ \E s \in Slot, a \in Addr : UpdGet(s, a)
  \/ \E s \in Slot, a \in Addr : UpdSet(s, a)
  \/ \E s \in Slot, a \in Addr : UpdFail(s, a)
  \/ \E s \in Slot, a \in Addr : UpdInv(s, a)

SpecCache == Init /\ [][NextCache]_vars

\* ---------------------------------------------------- vanished keys
\* A key leaves Redis by another client's doing (the service itself never
\* deletes one): what `if (!existingData) return` and `.filter(Boolean)`
\* provide for.
Removed(a) ==
  /\ store[a].present
  /\ store' = [store EXCEPT ![a] = NoRec]
  /\ UNCHANGED << cachedRankings, lastRankingUpdate, now, tasks, cacheStale,
                  sched, table, cleared, agent >>

\* Refresh cycles, with their reads, over a store that may lose keys.
NextStore ==
  \/ \E s \in Slot : CycleHigh(s)
  \/ \E a \in Addr : Removed(a)
  \/ \E s \in Slot : KeysMGet(s)
  \/ \E s \in Slot : KeysMGetFail(s)
  \/ \E s \in Slot : MGetCont(s)
  \/ \E s \in Slot : Fetched(s)
  \/ \E s \in Slot : FetchFailed(s)
  \/ \E s \in Slot, a \in Addr : UpdGet(s, a)
  \/ \E s \in Slot, a \in Addr : UpdSet(s, a)
  \/ \E s \in Slot, a \in Addr : UpdFail(s, a)
  \/ \E s \in Slot, a \in Addr : UpdInv(s, a)

SpecStore == Init /\ [][NextStore]_vars

\* ------------------------------------------------- analysis results
\* What analyzeTrends may return for a token: each number in range, out
\* of range or missing, the risk label one of the four, another one or
\* missing.  sentimentScore and confidence are in hundredths.
AnalysisInputs ==
  [sentimentScore : {None, -300, 100, 300},
   trendingScore  : {None, -50, 100, 400},
   mentionCount   : {None, -10, 1000},
   avgEngagement  : {None, -100, 50000},
   confidence     : {None, -100, 100, 500},
   riskLevel      : {"low", "medium", "high", "extreme", "unknown", "none",
                     "constructor"}]

\* The first HIGH cycle after the bootstrap, with nothing else running.
FirstRefresh(s) ==
  /\ \A a \in Addr : store[a].socialScore = None
  /\ \A r \in Slot : Free(r)
  /\ CycleHigh(s)

\* The analysis has an entry for one token of the cycle.
FetchedOne(s) ==
  \E x \in AnalysisInputs : \E a \in Addr :
    FetchedWith(s, [b \in { c \in Addr : tasks[s].upd[c].pc = "sel" } |->
                      IF b = a THEN x ELSE NoEntry], {})

NextScore ==
  \/ \E s \in Slot : FirstRefresh(s)
  \/ \E s \in Slot : KeysMGet(s)
  \/ \E s \in Slot : MGetCont(s)
  \/ \E s \in Slot : FetchedOne(s)
  \/ \E s \in Slot, a \in Addr : UpdGet(s, a)
  \/ \E s \in Slot, a \in Addr : UpdSet(s, a)
  \/ \E s \in Slot, a \in Addr : UpdInv(s, a)

SpecScore == Init /\ [][NextScore]_vars

\* ---------------------------------------------- the initial bootstrap
\* Base scores of OnChainAggregator.analyzeOnChain(): activity, liquidity,
\* distribution and risk in 0..100, momentum in -100..100.  The corners of
\* the ranges and one point inside; at each of them TrendingScore is a
\* whole number.
ExampleBase ==
  [activity |-> 80, liquidity |-> 60, distribution |-> 50, momentum |-> 20,
   risk |-> 30]

BaseScores ==
  [activity : {0, 100}, liquidity : {0, 100}, distribution : {0, 100},
   momentum : {-100, 100}, risk : {0, 100}] \cup {ExampleBase}

\* A token the bootstrap has not analysed yet.
NoBase ==
  [activity |-> None, liquidity |-> None, distribution |-> None,
   momentum |-> None, risk |-> None]

TrendingScoreFullMomentum(b) ==
  6 * b.activity + 4 * b.liquidity + 2 * b.distribution
  + 6 * (50 + b.momentum) + 2 * (100 - b.risk)

\* TrendingScore, in twentieths:
\*   Activity * 0.3 + Liquidity * 0.2 + Distribution * 0.1
\*   + (50 + Momentum/2) * 0.3 + (100 - Risk) * 0.1
TrendingScore(b) ==
  6 * b.activity + 4 * b.liquidity + 2 * b.distribution
  + 3 * (100 + b.momentum) + 2 * (100 - b.risk)

\* Steps 1.2 and 1.3 for one token: the analysis gives its base scores and
\* the record is saved with the trending score, social_score = NULL.
AnalyzeOnChain(a) ==
  /\ ~store[a].present
  /\ table.analysis[a] = NoBase
  /\ \E b \in BaseScores :
       /\ TrendingScore(b) % 20 = 0
       /\ table' = [table EXCEPT !.analysis[a] = b]
       /\ store' = [store EXCEPT ![a] = Rec(TrendingScore(b) \div 20, None, None)]
  /\ UNCHANGED << cachedRankings, lastRankingUpdate, now, tasks, cacheStale,
                  sched, cleared, agent >>

\* An analysis that calculateSocialScore scores 90.
StrongAnalysis ==
  [sentimentScore |-> 60, trendingScore |-> 100, mentionCount |-> 100,
   avgEngagement |-> 1000, confidence |-> 50, riskLevel |-> "low"]

\* The analysis has the same entry for every token of the cycle.
FetchedAlike(s) ==
  \E x \in Analyses \cup {StrongAnalysis} :
    FetchedWith(s, [b \in { c \in Addr : tasks[s].upd[c].pc = "sel" } |-> x], {})

\* Nothing is stored yet and no token is analysed.
InitBootstrap ==
  /\ InitService
  /\ \A a \in Addr : ~store[a].present
  /\ table = [clock |-> 0, tokens_to_update |-> {},
              rows |-> [a \in Addr |-> Row("high", 0)],
              analysis |-> [a \in Addr |-> NoBase]]

\* The bootstrap, then the first social refresh.
NextBootstrap ==
  \/ \E a \in Addr : AnalyzeOnChain(a)
  \/ \E s \in Slot : FirstRefresh(s)
  \/ \E s \in Slot : KeysMGet(s)
  \/ \E s \in Slot : MGetCont(s)
  \/ \E s \in Slot : FetchedAlike(s)
  \/ \E s \in Slot, a \in Addr : UpdGet(s, a)
  \/ \E s \in Slot, a \in Addr : UpdSet(s, a)
  \/ \E s \in Slot, a \in Addr : UpdInv(s, a)

SpecBootstrap == InitBootstrap /\ [][NextBootstrap]_vars

\* ------------------------------------------------ the timers, for ever
\* A setInterval callback runs once the earlier run has returned: the
\* three tasks again and again, with no clock.
AgainHigh(s)   == (\A r \in Slot : Free(r)) /\ CycleHigh(s)
AgainMedium(s) == (\A r \in Slot : Free(r)) /\ CycleMedium(s)
AgainLow(s)    == (\A r \in Slot : Free(r)) /\ CycleLow(s)

\* Redis answers every command and the social fetch and the analysis
\* succeed.
NextLive ==
  \/ \E s \in Slot : AgainHigh(s)
  \/ \E s \in Slot : AgainMedium(s)
  \/ \E s \in Slot : AgainLow(s)
  \/ \E s \in Slot : KeysMGet(s)
  \/ \E s \in Slot : MGetCont(s)
  \/ \E s \in Slot : Fetched(s)
  \/ \E s \in Slot, a \in Addr : UpdGet(s, a)
  \/ \E s \in Slot, a \in Addr : UpdSet(s, a)
  \/ \E s \in Slot, a \in Addr : UpdInv(s, a)

\* Every interval timer fires again and again (it is enabled whenever no
\* run is in progress), and every answer awaited arrives.
FairLive ==
  /\ SF_vars(\E s \in Slot : AgainHigh(s))
  /\ SF_vars(\E s \in Slot : AgainMedium(s))
  /\ SF_vars(\E s \in Slot : AgainLow(s))
  /\ WF_vars(\E s \in Slot : KeysMGet(s))
  /\ WF_vars(\E s \in Slot : MGetCont(s))
  /\ WF_vars(\E s \in Slot : Fetched(s))
  /\ WF_vars(\E s \in Slot, a \in Addr : UpdGet(s, a))
  /\ WF_vars(\E s \in Slot, a \in Addr : UpdSet(s, a))
  /\ WF_vars(\E s \in Slot, a \in Addr : UpdInv(s, a))

SpecLive == Init /\ [][NextLive]_vars /\ FairLive

\* ------------------------------------------- the social sources are down
\* Every search of the cycle rejects: searchTweets and fetchReddit catch and
\* log each error, fetaclTokenData returns no post and the analysis has no
\* entry for any token.
FetchedNone(s) ==
  LET toks == { a \in Addr : tasks[s].upd[a].pc = "sel" }
  IN  FetchedWith(s, [a \in toks |-> NoEntry], toks)

\* HIGH cycles none of whose social fetches succeeds: the failure is caught
\* in the searches, or it reaches the catch block of the cycle.
NextOutage ==
  \/ \E s \in Slot : CycleHigh(s)
  \/ \E s \in Slot : KeysMGet(s)
  \/ \E s \in Slot : MGetCont(s)
  \/ \E s \in Slot : FetchedNone(s)
  \/ \E s \in Slot : FetchFailed(s)
  \/ \E s \in Slot, a \in Addr : UpdGet(s, a)
  \/ \E s \in Slot, a \in Addr : UpdSet(s, a)
  \/ \E s \in Slot, a \in Addr : UpdInv(s, a)

SpecOutage == Init /\ [][NextOutage]_vars

\* ------------------------------------- PersonalAssistantAgent, messages
\* An A2AMessagePayload: its type, the address in its data, whether an
\* alert's data carries yieldData and riskData, and its number.
Payload(messageType, address, carries, n) ==
  [messageType |-> messageType, address |-> address, carries |-> carries,
   n |-> n]

KeepAll(list, max) == list

\* `if (list.length > max) list = list.slice(0, max)` after an unshift.
KeepRecent(list, max) ==
  IF Len(list) > max THEN Slice(list, 0, max) ELSE list

\* handleTokenDiscovery: aggregatedData.set(address, { discovery, null.. })
handleTokenDiscovery(aggregatedData, p) ==
  [aggregatedData EXCEPT ![p.address] =
     [present |-> TRUE, discovery |-> "full", yield |-> None, risk |-> None,
      alert |-> None, lastUpdated |-> p.n]]

handleYieldReportCreates(aggregatedData, p) ==
  [aggregatedData EXCEPT ![p.address] =
     [@ EXCEPT !.present = TRUE, !.yield = p.n, !.lastUpdated = p.n]]

\* handleYieldReport: `if (aggregatedData) { .yield = yieldData; .. }`
handleYieldReport(aggregatedData, p) ==
  IF aggregatedData[p.address].present
  THEN [aggregatedData EXCEPT ![p.address] =
          [@ EXCEPT !.yield = p.n, !.lastUpdated = p.n]]
  ELSE aggregatedData

\* handleRiskReport: `if (aggregatedData) { .risk = riskData; .. }`
handleRiskReport(aggregatedData, p) ==
  IF aggregatedData[p.address].present
  THEN [aggregatedData EXCEPT ![p.address] =
          [@ EXCEPT !.risk = p.n, !.lastUpdated = p.n]]
  ELSE aggregatedData

\* handleAlertDecision: a minimal discovery object if the entry is
\* missing; the alert, and its yieldData and riskData if present.
handleAlertDecision(aggregatedData, p) ==
  LET found == aggregatedData[p.address]
      entry == IF found.present THEN found
               ELSE [present |-> TRUE, discovery |-> "minimal",
                     yield |-> None, risk |-> None, alert |-> None,
                     lastUpdated |-> p.n]
  IN  [aggregatedData EXCEPT ![p.address] =
         [entry EXCEPT !.alert = p.n,
                       !.yield = IF p.carries THEN p.n ELSE @,
                       !.risk  = IF p.carries THEN p.n ELSE @,
                       !.lastUpdated = p.n]]

\* The switch of processMessage; handleSettlementUpdate only logs.
Handled(aggregatedData, p) ==
  CASE p.messageType = "token_discovery" -> handleTokenDiscovery(aggregatedData, p)
    [] p.messageType = "yield_report"    -> handleYieldReport(aggregatedData, p)
    [] p.messageType = "risk_report"     -> handleRiskReport(aggregatedData, p)
    [] p.messageType = "alert_decision"  -> handleAlertDecision(aggregatedData, p)
    [] OTHER                             -> aggregatedData

\* processMessage: the payload is put at the head of the activity log, the
\* log is cut to 100 entries and the handler of the type runs.  No handler
\* awaits before it has changed aggregatedData: the call is one step.
processMessage(messageType, address, carries) ==
  LET p == Payload(messageType, address, carries, agent.received + 1)
  IN  /\ agent' = [agent EXCEPT
             !.received = @ + 1,
             !.activityLog = KeepRecent(<< p >> \o @, ACTIVITY_LOG_MAX),
             !.aggregatedData = Handled(@, p)]
      /\ UNCHANGED << store, cachedRankings, lastRankingUpdate, now, tasks,
                      cacheStale, sched, table, cleared >>

\* A payload of any type arrives, for any key; only an alert may carry
\* yieldData and riskData.
Receive ==
  /\ agent.received < MaxMessages
  /\ \E messageType \in MessageTypes : \E address \in AgentKeys :
       \E carries \in BOOLEAN :
         /\ carries => messageType = "alert_decision"
         /\ processMessage(messageType, address, carries)

NextAgent == Receive

SpecAgent == Init /\ [][NextAgent]_vars

\* ------------------------------------- PersonalAssistantAgent, insights
\* The type of the n-th payload of a stream that starts with a
\* token_discovery and goes through the types in turn.
Rotation(n) ==
  CASE n % 6 = 1 -> "token_discovery"
    [] n % 6 = 2 -> "yield_report"
    [] n % 6 = 3 -> "risk_report"
    [] n % 6 = 4 -> "alert_decision"
    [] n % 6 = 5 -> "settlement_request"
    [] OTHER     -> "unknown"

\* The next payload of the rotating stream, every one for the same token.
ReceiveNext ==
  /\ agent.received < MaxLogged
  /\ \E a \in {1} : processMessage(Rotation(agent.received + 1), a, FALSE)

\* generateInsights up to `await this.callGroqAPI(..)`: it returns at
\* once when no token is aggregated.  The cron job and the daily summary
\* may both be waiting.
GenerateStart ==
  /\ \E k \in AgentKeys : agent.aggregatedData[k].present
  /\ agent.generating < MaxGenerating
  /\ agent.generated + agent.generating < MaxInsights
  /\ agent' = [agent EXCEPT !.generating = @ + 1]
  /\ UNCHANGED << store, cachedRankings, lastRankingUpdate, now, tasks,
                  cacheStale, sched, table, cleared >>

\* The LLM has answered: the report is put at the head of the list and
\* the list is cut to 10.
GenerateDone ==
  /\ agent.generating > 0
  /\ agent' = [agent EXCEPT
         !.generating = @ - 1,
         !.generated = @ + 1,
         !.insights = KeepRecent(<< [n |-> agent.generated + 1] >> \o @,
                                 INSIGHTS_MAX)]
  /\ UNCHANGED << store, cachedRankings, lastRankingUpdate, now, tasks,
                  cacheStale, sched, table, cleared >>

\* callGroqAPI rejects: the catch block of generateInsights logs it.
GenerateFail ==
  /\ agent.generating > 0
  /\ agent' = [agent EXCEPT !.generating = @ - 1]
  /\ UNCHANGED << store, cachedRankings, lastRankingUpdate, now, tasks,
                  cacheStale, sched, table, cleared >>

NextLog ==
  \/ ReceiveNext
  \/ GenerateStart
  \/ GenerateDone
  \/ GenerateFail

SpecLog == Init /\ [][NextLog]_vars

\* ------------------------------------------------------------- claims
Stored == { a \in Addr : store[a].present }

\* C1: every stored record's finalScore is the fusion of its current
\* sub-scores: the on-chain score while it has no socialScore, and
\* round(0.6 * onChainScore + 0.4 * socialScore) once it has one; the
\* store never holds a new socialScore beside an old finalScore.
C1_FinalScoreFused ==
  \A a \in Stored :
    LET r  == store[a]
        fs == FinalOf(r)
        x  == 6 * OnChainOf(r) + 4 * r.socialScore
    IN  IF r.socialScore = None
        THEN fs = OnChainOf(r)
        ELSE 10 * fs - 5 <= x /\ x < 10 * fs + 5

C1_Witness ==
  \E a \in Stored :
    /\ store[a].socialScore # None
    /\ FinalOf(store[a]) # OnChainOf(store[a])

C3_NoSelfOverlap ==
  \A s1, s2 \in Slot :
    ( /\ tasks[s1].kind = "cycle"
      /\ tasks[s2].kind = "cycle"
      /\ tasks[s1].origin \in {"high", "medium", "low"}
      /\ tasks[s1].origin = tasks[s2].origin ) => s1 = s2

\* C4: a completed updateTokenSocialScore write leaves the cached snapshot
\* absent; a call of getTokenAddressesSorted that finds it absent reads
\* the Score Store, and what it has read is the store's content unless a
\* later write was applied since.
C4_WriteInvalidates ==
  /\ [][ /\ \A s \in Slot, a \in Addr :
              UpdInv(s, a) => cachedRankings' = << >>
         /\ \A s \in Slot :
              (Call(s) /\ cachedRankings = << >>) => tasks'[s].pc = "keys"
       ]_vars
  /\ [](\A s \in Slot :
          ( /\ tasks[s].pc = "mgot"
            /\ tasks[s].obs.missed = {}
            /\ ~tasks[s].obs.behind ) => tasks[s].vals = store)

\* A write has completed, the snapshot is absent, and a call that started
\* since holds the written record, read from the store.
C4_Witness ==
  /\ cachedRankings = << >>
  /\ \A s \in Slot, a \in Addr : tasks[s].upd[a].pc = "none"
  /\ \E s \in Slot, a \in Addr :
       /\ tasks[s].pc = "mgot"
       /\ store[a].socialScore # None
       /\ tasks[s].vals[a] = store[a]

IsRanked(seq) ==
  \A i, j \in 1..Len(seq) :
    i < j => \/ seq[i].finalScore > seq[j].finalScore
             \/ /\ seq[i].finalScore = seq[j].finalScore
                /\ seq[i].address < seq[j].address

C6_RankedOrder ==
  /\ IsRanked(cachedRankings)
  /\ \A s \in Slot : tasks[s].pc = "mgot" => IsRanked(Sorted(tasks[s]))

\* C7: two rebuilds from the same store content yield the same sequence,
\* whatever order the keys came in.
C7_RebuildDeterministic ==
  \A s1, s2 \in Slot :
    ( /\ tasks[s1].pc = "mgot"
      /\ tasks[s2].pc = "mgot"
      /\ tasks[s1].vals = tasks[s2].vals ) => Sorted(tasks[s1]) = Sorted(tasks[s2])

C9_StaleOnFailure ==
  [][ \A s \in Slot :
        (KeysMGetFail(s) /\ tasks[s].kind = "top") =>
          tasks'[s].tokens = Slice(cachedRankings, 0, tasks[s].endRank)
    ]_vars

\* C10: when the rebuild failed and there is no snapshot, GET /top-tokens
\* answers an empty sequence, not an error.
C10_EmptyNotError ==
  [][ \A s \in Slot :
        ( /\ TopMGet(s)
          /\ tasks[s].obs.path = "err"
          /\ cachedRankings = << >> ) =>
          TopResponse(tasks[s], FALSE) = [status |-> 200, body |-> << >>]
    ]_vars

\* C11: within one cycle, a failure of the fetch, the analysis or the
\* store write for one token does not abort the cycle or change what
\* happens to another token: when the fetch and analysis stage ends, at
\* most the one failed token of the window is not handed on to be
\* refreshed, and a failed write leaves the other tokens' updates alone.
C11_FailureIsolated ==
  [][ \A s \in Slot :
        /\ (tasks[s].pc = "fetch" /\ tasks'[s].pc # "fetch") =>
             Cardinality({ a \in Addr : /\ tasks[s].upd[a].pc = "sel"
                                        /\ tasks'[s].upd[a].pc # "get" }) <= 1
        /\ \A a \in Addr :
             UpdFail(s, a) =>
               \A b \in Addr \ {a} : tasks'[s].upd[b] = tasks[s].upd[b]
    ]_vars

\* C12: a token whose social fetch failed in a cycle is not written by
\* that cycle: it is not handed to updateTokenSocialScore, so its record
\* keeps its timestamps and sub-scores.
C12_FailedFetchKeepsRecord ==
  [][ \A s \in Slot : \A toks \in SUBSET Addr :
        \A analysisMap \in [toks -> Analyses \cup {NoEntry}] :
          \A lost \in SUBSET toks :
            FetchedWith(s, analysisMap, lost) =>
              \A a \in lost : tasks'[s].upd[a].pc = "none"
    ]_vars

\* C13: a token absent from the analysis result keeps its socialScore and
\* finalScore: the only social scores the store ever holds are scores
\* computed from an analysis entry.
C13_AbsentLeavesRecord ==
  \A a \in Stored :
    store[a].socialScore \in
      {None} \cup { calculateSocialScore(t) : t \in Analyses }

\* The tokens a cycle has selected for refresh.
Sel(t) == { a \in Addr : t.upd[a].pc = "sel" }

\* The addresses at the zero-based positions [w[1], w[2]) of a ranked
\* order.
SelectedIn(ranked, w) ==
  { ranked[i].address : i \in { j \in 1..Len(ranked) : InWindow(j - 1, w) } }

\* The addresses at the positions [w[1], w[2]) of a ranked order whose
\* entry has a ticker.
UsableIn(ranked, w) ==
  { ranked[i].address :
      i \in { j \in 1..Len(ranked) : InWindow(j - 1, w) /\ ranked[j].symbol # "" } }

\* What a cycle selects from a ranked order: every token of its window,
\* provided one of them has a ticker.
CycleSelects(ranked, w) ==
  IF UsableIn(ranked, w) = {} THEN {} ELSE SelectedIn(ranked, w)

\* C14: a refresh write that fails because Redis is unavailable is
\* dropped: the store and the cache are unchanged, the cycle's other
\* token updates and the other calls go on untouched.  The token is
\* written again by the next cycle of its tier: a cycle selects every token
\* ranked in its window (one of which has a ticker, as in any window with
\* a write), hands every selected token on, and a token whose record is
\* read is written.
C14_WriteDropped ==
  [][ \A s \in Slot :
        /\ \A a \in Addr :
             UpdFail(s, a) =>
               /\ store' = store
               /\ cachedRankings' = cachedRankings
               /\ tasks'[s].pc \in {"upd", "idle"}
               /\ \A b \in Addr \ {a} : tasks'[s].upd[b] = tasks[s].upd[b]
               /\ \A r \in Slot \ {s} : tasks'[r] = tasks[r]
        /\ (MGetCont(s) /\ tasks[s].kind = "cycle") =>
             Sel(tasks'[s]) =
               CycleSelects(Sorted(tasks[s]),
                            << tasks[s].startRank, tasks[s].endRank >>)
        /\ \A t \in Timers :
             (CacheFresh /\ Due(t) /\ Fire(t, s)) =>
               Sel(tasks'[s]) = CycleSelects(cachedRankings, TimerWindow(t))
        /\ (tasks[s].pc = "fetch" /\ tasks'[s].pc = "upd") =>
             \A a \in Sel(tasks[s]) : tasks'[s].upd[a].pc = "get"
        /\ \A a \in Addr :
             (UpdGet(s, a) /\ store[a].present) =>
               tasks'[s].upd[a].pc = "set"
        /\ \A a \in Addr :
             UpdSet(s, a) =>
               /\ store'[a].socialScore = tasks[s].upd[a].socialScore
               /\ \A b \in Addr \ {a} : store'[b] = store[b]
    ]_vars

\* A HIGH cycle goes on with one token after the write of its other token
\* was dropped: no record has a social score.
C14_Witness ==
  /\ \A c \in Stored : store[c].socialScore = None
  /\ \E s \in Slot, a, b \in Stored :
       /\ tasks[s].origin = "high"
       /\ tasks[s].pc = "upd"
       /\ tasks[s].upd[a].pc = "none"
       /\ tasks[s].upd[b].pc \in {"get", "set"}

C16_BootstrapWholeWindows ==
  [][ \A s \in Slot :
        /\ BootMedium(s) => sched.next["bootHigh"] = None
        /\ BootLow(s) => sched.next["bootMedium"] = None
        /\ (IntervalHigh(s) \/ IntervalMedium(s) \/ IntervalLow(s)) =>
             \A t \in BootTimers : sched.next[t] = None
        /\ \A t \in BootTimers :
             (Due(t) /\ Fire(t, s)) =>
               Begin(s, "cycle", TimerTier(t),
                     TierWindow(TimerTier(t))[1], TierWindow(TimerTier(t))[2])
    ]_vars

\* C16 amended: 2, 15 and 30 seconds after start, before the first
\* interval tick, one refresh of HIGH, then MEDIUM, then LOW is started,
\* each once; HIGH covers [0,20), MEDIUM [20,100), LOW only [100,300).
C16_BootstrapOrder ==
  /\ [][ \A s \in Slot :
          /\ BootHigh(s) =>
               /\ sched.clock = 2
               /\ Begin(s, "cycle", "high", 0, 20)
          /\ BootMedium(s) =>
               /\ sched.clock = 15
               /\ sched.next["bootHigh"] = None
               /\ Begin(s, "cycle", "medium", 20, 100)
          /\ BootLow(s) =>
               /\ sched.clock = 30
               /\ sched.next["bootHigh"] = None
               /\ sched.next["bootMedium"] = None
               /\ Begin(s, "cycle", "low", 100, 300)
          /\ (IntervalHigh(s) \/ IntervalMedium(s) \/ IntervalLow(s)) =>
               \A t \in BootTimers : sched.next[t] = None
       ]_vars
  /\ [][ \A t \in BootTimers :
          sched.next[t] = None => sched'.next[t] = None ]_vars
  /\ [](sched.clock > 30 => \A t \in BootTimers : sched.next[t] = None)

\* Thirty seconds after start the three start-up refreshes have been
\* started and no interval timer has fired yet.
C16_Witness ==
  /\ sched.clock = 30
  /\ \A t \in BootTimers : sched.next[t] = None
  /\ sched.next["high"] = 300
  /\ sched.next["medium"] = 1200
  /\ sched.next["low"] = 1800

\* C17: the tier of a zero-based rank p is HIGH for p < 20, MEDIUM for
\* 20 <= p < 100 and LOW from 100 on (19 HIGH, 20 MEDIUM, 99 MEDIUM,
\* 100 LOW), and the window an interval refresh of a tier is started
\* with holds exactly the ranks of that tier.
C17_TierOfRank ==
  /\ [](\A p \in 0..MaxRank :
          TierOf(p) = IF p < 20 THEN "high"
                      ELSE IF p < 100 THEN "medium" ELSE "low")
  /\ [](/\ TierOf(19) = "high"
        /\ TierOf(20) = "medium"
        /\ TierOf(99) = "medium"
        /\ TierOf(100) = "low")
  /\ [][ \A s \in Slot : \A t \in IntervalTimers :
          (Due(t) /\ Fire(t, s) /\ tasks'[s].pc = "keys") =>
            \A p \in 0..MaxRank :
              InWindow(p, << tasks'[s].startRank, tasks'[s].endRank >>)
                <=> TierOf(p) = tasks'[s].origin
       ]_vars

\* The LOW interval refresh has been started with the window [100, inf).
C17_Witness ==
  /\ sched.clock = 1800
  /\ \E s \in Slot :
       /\ tasks[s].pc = "keys"
       /\ tasks[s].origin = "low"
       /\ tasks[s].endRank = Infinity
       /\ TierOf(tasks[s].startRank) = "low"
       /\ TierOf(tasks[s].startRank - 1) = "medium"

\* The age, in seconds, a row of a priority must reach or pass.
TierInterval(priority) ==
  CASE priority = "high"   -> 300
    [] priority = "medium" -> 1800
    [] priority = "low"    -> 7200

C19_TopN ==
  [][ \A s \in Slot : \A q \in Limits :
        (TopTokensWith(s, q) /\ tasks'[s].pc = "topmget") =>
          LET body == TopResponse(tasks'[s], TRUE).body
          IN  /\ Len(body) = Min(q, Cardinality(Stored))
              /\ \A i \in 1..Len(body) :
                   /\ body[i].rank = i
                   /\ body[i].address = cachedRankings[i].address
                   /\ body[i].data = store[body[i].address]
    ]_vars

C21_ClearForcesRebuild ==
  [][ \A s \in Slot :
        (cleared /\ Free(s) /\ ~Free(s)') => tasks'[s].obs.path # "hit"
    ]_vars


\* C22: a scheduled cycle writes a record only when the record is due: the
\* cycle is the HIGH one, and the record has never had a social refresh or
\* its last social refresh is at least 5 minutes old.
C22_SocialDueOnly ==
  [][ \A s \in Slot : \A a \in Addr :
        (UpdSet(s, a) /\ tasks[s].origin \in Tiers) =>
          /\ tasks[s].origin = "high"
          /\ \/ store[a].lastUpdated = None
             \/ sched.clock - store[a].lastUpdated >= HIGH_INTERVAL
    ]_vars


C24_DueRefreshedEachRun ==
  [][ JobRun =>
        \A a \in table'.tokens_to_update :
          /\ table'.rows[a].last_updated = table'.clock
          /\ cachedRankings' = << >>
    ]_vars


\* C26: a refresh cycle whose rank window selects no token, or no token
\* with a ticker, is a no-op: the cycle ends where it learns this, without
\* starting the social fetch; no record is written, a cached snapshot is
\* not emptied and no other call is disturbed.
C26_EmptyWindowNoOp ==
  [][ \A s \in Slot :
        /\ ( /\ MGetCont(s)
             /\ tasks[s].kind = "cycle"
             /\ UsableIn(Sorted(tasks[s]),
                         << tasks[s].startRank, tasks[s].endRank >>) = {} ) =>
               /\ tasks'[s] = IdleTask
               /\ store' = store
               /\ cachedRankings' # << >>
               /\ \A r \in Slot \ {s} : tasks'[r] = tasks[r]
        /\ ( /\ KeysMGet(s) \/ KeysMGetFail(s)
             /\ tasks[s].kind = "cycle"
             /\ tasks'[s].pc # "mgot" ) =>
               /\ tasks'[s] = IdleTask
               /\ store' = store
               /\ cachedRankings' = cachedRankings
               /\ \A r \in Slot \ {s} : tasks'[r] = tasks[r]
        /\ \A t \in Timers :
             ( /\ Due(t) /\ Fire(t, s)
               /\ CacheFresh
               /\ UsableIn(cachedRankings, TimerWindow(t)) = {} ) =>
               /\ tasks' = tasks
               /\ store' = store
               /\ cachedRankings' = cachedRankings
    ]_vars

\* No stored record has a ticker: the HIGH start-up cycle has rebuilt the
\* snapshot and the MEDIUM one has run on it, and both have ended without
\* a write.
C26_Witness ==
  /\ \A a \in Addr :
       /\ store[a].present
       /\ store[a].symbol = ""
       /\ store[a].socialScore = None
  /\ cachedRankings # << >>
  /\ sched.next["bootHigh"] = None
  /\ sched.next["bootMedium"] = None
  /\ \A s \in Slot : Free(s)


\* C27: a cached snapshot is the result of one wholesale rebuild: it holds
\* each address of the store exactly once, in descending order of
\* finalScore; cachedRankings changes only by being emptied or by being
\* replaced with what one rebuild read: the keys of that rebuild, each
\* with the finalScore of the record its mGet returned.
C27_WholesaleSnapshot ==
  /\ [](cachedRankings # << >> =>
          /\ { cachedRankings[i].address : i \in 1..Len(cachedRankings) } = Stored
          /\ Len(cachedRankings) = Cardinality(Stored)
          /\ \A i, j \in 1..Len(cachedRankings) :
               i < j => cachedRankings[i].finalScore >= cachedRankings[j].finalScore)
  /\ [][ cachedRankings' # cachedRankings =>
          \/ cachedRankings' = << >>
          \/ \E s \in Slot :
               /\ MGetCont(s)
               /\ { cachedRankings'[i].address : i \in 1..Len(cachedRankings') }
                    = Range(tasks[s].keys)
               /\ \A i \in 1..Len(cachedRankings') :
                    cachedRankings'[i].finalScore =
                      FinalOf(tasks[s].vals[cachedRankings'[i].address])
       ]_vars

\* A snapshot rebuilt after a refresh has given the two records different
\* final scores.
C27_Witness ==
  /\ Len(cachedRankings) = 2
  /\ cachedRankings[1].finalScore > cachedRankings[2].finalScore


\* C28: no step of a refresh cycle or of a read changes the set of
\* addresses the store holds: none deletes a record, and a refresh of an
\* address that has no record creates none and leaves the cache alone.
C28_AddressSetKept ==
  [][ /\ (\A a \in Addr : ~Removed(a)) => Stored' = Stored
      /\ \A s \in Slot : \A a \in Addr :
           (UpdGet(s, a) /\ ~store[a].present) =>
             /\ store' = store
             /\ cachedRankings' = cachedRankings
             /\ tasks'[s].upd[a].pc = "none"
    ]_vars


\* A ranked order of n tokens that all have the same finalScore.
Ties(n) == [i \in 1..n |-> [address |-> i, finalScore |-> 50, symbol |-> "TKN"]]

\* The number of tokens the timer t selects from a ranked order of n.
Selects(t, n) == Len(Slice(Ties(n), TimerWindow(t)[1], TimerWindow(t)[2]))

\* At most 20 tokens for a HIGH timer and 80 for a MEDIUM one, whatever
\* the number of tokens.
WindowSizesBounded ==
  \A n \in 0..MaxRank : \A t \in Timers :
    /\ TimerTier(t) = "high" => Selects(t, n) <= 20
    /\ TimerTier(t) = "medium" => Selects(t, n) <= 80

\* C29: a HIGH cycle writes at most 20 records and a MEDIUM cycle at most
\* 80, however many tokens are ranked and also when their scores are
\* equal: the window of the cycle keeps at most that many entries, the
\* cycle hands on the tokens of its window only, and it writes each of
\* them at most once.
C29_TierWriteBound ==
  /\ []WindowSizesBounded
  /\ [][ \A s \in Slot :
          /\ \A t \in Timers :
               (Due(t) /\ Fire(t, s) /\ CacheFresh) =>
                 Sel(tasks'[s]) \subseteq SelectedIn(cachedRankings, TimerWindow(t))
          /\ (MGetCont(s) /\ tasks[s].kind = "cycle") =>
               Sel(tasks'[s]) \subseteq
                 SelectedIn(Sorted(tasks[s]),
                            TierWindow(tasks[s].origin))
          /\ (tasks[s].pc = "fetch" /\ tasks'[s].pc = "upd") =>
               { a \in Addr : tasks'[s].upd[a].pc # "none" } = Sel(tasks[s])
          /\ \A a \in Addr :
               /\ UpdSet(s, a) =>
                    /\ tasks[s].upd[a].pc = "set"
                    /\ tasks'[s].upd[a].pc = "inv"
                    /\ \A b \in Addr \ {a} : store'[b] = store[b]
               /\ ( /\ tasks[s].pc = "upd" /\ tasks'[s].pc = "upd"
                    /\ tasks[s].upd[a].pc \in {"inv", "none"} ) =>
                      tasks'[s].upd[a].pc \in {"inv", "none"}
       ]_vars

\* A HIGH cycle has written a record; of 101 tokens with equal scores its
\* window keeps 20 and the MEDIUM window 80.
C29_Witness ==
  /\ \E s \in Slot : \E a \in Addr :
       /\ tasks[s].origin = "high"
       /\ tasks[s].upd[a].pc = "inv"
  /\ Selects("high", MaxRank) = 20
  /\ Selects("medium", MaxRank) = 80


\* C30: every socialScore a social refresh stores is an integer from 0 to
\* 100, whatever the analysis returned for the token (numbers out of range
\* or missing, any risk label), and also when it returned nothing.
C30_SocialScoreRange ==
  [][ \A s \in Slot : \A a \in Addr :
        UpdSet(s, a) => store'[a].socialScore \in 0..100
    ]_vars

\* C31: the on-chain composition gives a score in 0..100 for base scores
\* in their ranges; for activity 80, liquidity 60, distribution 50,
\* momentum 20 and risk 30 it gives 66, and a refresh of that record with
\* socialScore 90 leaves finalScore 76.
C31_OnChainComposition ==
  \A a \in Addr :
    /\ store[a].present => store[a].trendingscore \in 0..100
    /\ (store[a].present /\ table.analysis[a] = ExampleBase) =>
         /\ store[a].trendingscore = 66
         /\ store[a].socialScore = 90 => store[a].finalScore = 76

C31_Witness ==
  \E a \in Addr, b \in Addr :
      /\ table.analysis[a] = ExampleBase
      /\ store[a].socialScore = 90
      /\ store[a].finalScore = 76
      /\ store[b].present
      /\ store[b].trendingscore \in {0, 100}

\* C32: with fair timers, the store available and the social fetch
\* succeeding, every tracked record eventually has a socialScore.
C32_EveryRecordRefreshed ==
  \A a \in Addr : store[a].present ~> (store[a].socialScore # None)

\* C33: the write of a social refresh changes only the socialScore, the
\* finalScore and the socialAnalysis of its record: the record's presence,
\* symbol and on-chain score are after the write what the store held right
\* before it, and no other record changes.
C33_RefreshFrame ==
  [][ \A s \in Slot : \A a \in Addr :
        UpdSet(s, a) =>
          /\ \A b \in Addr \ {a} : store'[b] = store[b]
          /\ store'[a].present = store[a].present
          /\ store'[a].symbol = store[a].symbol
          /\ store'[a].trendingscore = store[a].trendingscore
    ]_vars

\* C34: the records GET /top-tokens answers are in non-increasing order of
\* the finalScore values they hold, also when a refresh writes between
\* the ranking lookup and the mGet of the full records.
C34_TopOrdered ==
  [][ \A s \in Slot :
        TopMGet(s) =>
          LET body == TopResponse(tasks[s], TRUE).body
          IN  \A i \in 1..Len(body) : \A j \in 1..Len(body) :
                (i < j /\ body[i].data.finalScore # None
                       /\ body[j].data.finalScore # None) =>
                  body[i].data.finalScore >= body[j].data.finalScore
    ]_vars

\* C35: a cycle whose social fetch or analysis fails writes no record,
\* leaves the ranking cache as it was and ends without an error for its
\* caller.  Every fetch fails here, so no step changes the store, only a
\* rebuild changes the cache, and a failure caught by the cycle ends it.
C35_FailedFetchWritesNothing ==
  [][ /\ store' = store
      /\ cachedRankings' # cachedRankings => \E s \in Slot : MGetCont(s)
      /\ \A s \in Slot : FetchFailed(s) => tasks'[s] = IdleTask
    ]_vars

\* The payloads processed so far for the key k whose type is in `types`:
\* the activity log holds them all while it is shorter than its maximum.
Processed(k, types) ==
  { i \in 1..Len(agent.activityLog) :
      /\ agent.activityLog[i].address = k
      /\ agent.activityLog[i].messageType \in types }

\* C36: a yield_report or risk_report for an address without an entry
\* leaves aggregatedData unchanged and an alert_decision for it creates the
\* entry; an address has an entry exactly when a token_discovery or an
\* alert_decision for it has been processed.
C36_EntryIffDiscoveredOrAlerted ==
  /\ [](\A k \in AgentKeys :
          agent.aggregatedData[k].present <=>
            Processed(k, {"token_discovery", "alert_decision"}) # {})
  /\ [][ agent'.received # agent.received =>
           LET p == Head(agent'.activityLog)
               missing == ~agent.aggregatedData[p.address].present
           IN  /\ (missing /\ p.messageType \in {"yield_report", "risk_report"}) =>
                    agent'.aggregatedData = agent.aggregatedData
               /\ (missing /\ p.messageType = "alert_decision") =>
                    /\ agent'.aggregatedData[p.address].present
                    /\ \A k \in AgentKeys \ {p.address} :
                         agent'.aggregatedData[k] = agent.aggregatedData[k]
       ]_vars

\* A yield_report and a risk_report came for an address that has no entry,
\* and an alert_decision created the entry of another.
C36_Witness ==
  \E k \in AgentKeys : \E j \in AgentKeys \ {k} :
    /\ ~agent.aggregatedData[k].present
    /\ Processed(k, {"yield_report"}) # {}
    /\ Processed(k, {"risk_report"}) # {}
    /\ agent.aggregatedData[j].present
    /\ agent.aggregatedData[j].discovery = "minimal"
    /\ Processed(j, {"token_discovery"}) = {}

\* The list holds the latest min(count, max) of the items numbered
\* 1..count, the newest first.
NewestFirst(list, count, max) ==
  /\ Len(list) = Min(count, max)
  /\ \A i \in 1..Len(list) : list[i].n = count - i + 1

\* C37: after any sequence of processed messages and insight generations
\* the activity log holds at most 100 payloads and the insight list at
\* most 10 reports, each the newest first, the oldest discarded.
C37_LogsBounded ==
  /\ Len(agent.activityLog) <= 100
  /\ Len(agent.insights) <= 10
  /\ NewestFirst(agent.activityLog, agent.received, 100)
  /\ NewestFirst(agent.insights, agent.generated, 10)

\* Both lists are full and have discarded their oldest entries.
C37_Witness ==
  /\ agent.received > 100
  /\ agent.generated > 10
  /\ Len(agent.activityLog) = 100
  /\ Len(agent.insights) = 10
  /\ agent.activityLog[100].n = agent.received - 99
  /\ agent.insights[10].n = agent.generated - 9

=========================================================================
